---- MODULE Spec2Model ----
(***************************************************************************)
(* Nostr Chess: the game-session protocol as the source implements it.     *)
(*                                                                         *)
(*   Spec         the move feed of one session: publishMove, the relay,    *)
(*                getGameMoves and the useGameMoves hook                   *)
(*   SpecArchive  archiveGame / getGameArchive of two players              *)
(*   SpecStore    the application store: startGame, makeMove               *)
(*   SpecHistory  the application store with endGame and selectMove        *)
(*   SpecAccept   acceptances of one offer as two peers observe them       *)
(*   SpecFork     a forked session: siblings, resolutions, the grace clock *)
(*   SpecOffers   offers on the relays, useGameOffers, acceptances of them *)
(*   SpecMyOffers the store's own offers: createGameOffer, cancelGameOffer *)
(*   SpecResub    useGameMoves unsubscribing and subscribing again         *)
(*   SpecStamp    two runs of useGameMoves on messages that differ only in *)
(*                created_at                                               *)
(*   SpecPublish  NostrClient.publish and the answers of the relays        *)
(*   SpecTrip     createGameOfferEvent followed by eventToGameOffer        *)
(*   SpecInit     GameService before and after initialize()                *)
(*   SpecConfig   NostrClient.publish under any relay list                 *)
(*   SpecClient   NostrClient subscriptions and the relay status of the    *)
(*                store                                                    *)
(***************************************************************************)
EXTENDS Naturals, Integers, Sequences, FiniteSets, TLC

VARIABLES
  published,    \* every move event that was ever sent to the relays
  relay,        \* the move events the relay holds as live values
  mounted,      \* useGameMoves: the effect has run (query sent, subscribed)
  query,        \* getGameMoves promise: "idle" | "pending" | "served" | "done"
  queryResult,  \* the sorted array getGameMoves resolves with
  moves,        \* useGameMoves: the `moves` state
  seen,         \* ids of the events handed to the hook by query or subscription
  lastOp,       \* the last step of the move feed
  subs,         \* how many times the effect of useGameMoves has run
  archives,     \* kind-64 archive events on the relay, in publication order
  svcKey,       \* GameService.privateKey of each player (NoKey before initialize)
  observed,     \* what getGameArchive last returned to each player
  archPc,       \* archiveGame of each player: "idle" | "publishing"
  archTried,    \* how many archiveGame calls each player has started
  currentGame,  \* store: currentGame (NoGame when null)
  lastMove,     \* store: outcome of the last makeMove call
  gameHistory,  \* store: gameHistory, newest record first
  selectedMove, \* store: selectedMove: << >> when null, <<k>> for index k
  accPublished, \* acceptance events sent to the relays
  handed,       \* per peer: the acceptances passed to onAcceptance, in order
  accSub,       \* per peer: subscribeToGameAcceptances is open
  peerGame,     \* per peer: the id of the store's currentGame (NoSession when null)
  clock,        \* time passed since the peer first held a fork, in ticks
  offNow,       \* Math.floor(Date.now() / 1000)
  offerRelay,   \* the offer events the relays hold
  offMounted,   \* useGameOffers: the effect has run
  offQuery,     \* getAvailableOffers promise: "idle" | "pending" | "done"
  offers,       \* useGameOffers: the `offers` state
  offHandedNow, \* the offers the last step handed to the caller (by query or onOffer)
  myOffers,     \* store: myOffers
  uuidCount,    \* crypto.randomUUID calls made by the store
  offOutcome,   \* how the last offer operation ended
  stampOf,      \* second run: the created_at each message carries there
  runA,         \* the `moves` state of the run that ingests the messages as published
  runB,         \* the `moves` state of the run that ingests them with stampOf
  connected,    \* NostrClient.connected
  pubPromise,   \* the promise of the last NostrClient.publish call
  answered,     \* the relays' answers to that call, in the order they came
  pubCalls,     \* NostrClient.publish calls made
  clientRelays, \* NostrClient.relays: the relay list of the configuration
  subscriptions,\* NostrClient.subscriptions: the ids in the table
  closeCalls,   \* per subscription id: how often its close function ran
  subCount,     \* crypto.randomUUID calls made by subscribe
  clientOp,     \* the last call on the client and its argument
  reached,      \* the relays the pool has an open connection to
  relayStatus,  \* store: relayStatus, per relay its connected flag
  isConnected,  \* store: isConnected
  tripOffer,    \* the offer last given to createGameOfferEvent
  tripNow,      \* the clock reading its expires tag was computed from
  tripEvent,    \* the event it returned
  tripDecoded,  \* what eventToGameOffer returned for that event
  accFilter     \* per player: the #p value of the open acceptance filter

feedVars    == <<published, relay, mounted, query, queryResult, moves, seen, lastOp, subs>>
archiveVars == <<archives, svcKey, observed, archPc, archTried>>
storeVars   == <<currentGame, lastMove, gameHistory, selectedMove>>
acceptVars  == <<accPublished, handed, accSub, peerGame>>
forkVars    == <<clock>>
offerVars   == <<offNow, offerRelay, offMounted, offQuery, offers, offHandedNow,
                 myOffers, uuidCount, offOutcome>>
stampVars   == <<stampOf, runA, runB>>
pubVars     == <<connected, pubPromise, answered, pubCalls, clientRelays,
                 subscriptions, closeCalls, subCount, clientOp,
                 reached, relayStatus, isConnected>>
tripVars    == <<tripOffer, tripNow, tripEvent, tripDecoded>>
initVars    == <<accFilter>>
vars        == <<feedVars, archiveVars, storeVars, acceptVars, forkVars, offerVars, stampVars, pubVars, tripVars, initVars>>

----------------------------------------------------------------------------
(* Bounds of the model *)

\* plies of the honest game that are published
MaxPly == 3

\* messages published to the session that are not plies of the honest game
MaxForeign == 1

\* runs of the effect of useGameMoves (subscriptions opened)
MaxStamp == 1
MaxHistory == 2
MaxRelays == 3
MaxPublishes == 2
MaxSubs == 3
MaxMounts == 2

----------------------------------------------------------------------------
(* Keys and identities *)

WhiteKey == "W"
BlackKey == "B"
ThirdKey == "T"
NoKey    == "none"

\* getPublicKey: the public key of a secret key
getPublicKey(sk) ==
  CASE sk = "skW" -> WhiteKey
    [] sk = "skB" -> BlackKey
    [] sk = "skT" -> ThirdKey

\* the Schnorr signature of an event id under a public key's secret key
Sign(id, pubkey) == <<"sig", id, pubkey>>
BadSig           == <<"sig", "", "nobody">>

\* the Identity Provider's verify: sig is the signature of id by pubkey
SigVerifies(e) == e.sig = Sign(e.id, e.pubkey)

GameId  == "g1"
NoEvent == ""        \* previousEventId undefined (falsy)
GhostId == "ghost"   \* an id no event of the session carries

GAME_OFFER    == 1491
LIVE_GAME     == 34609
FINAL_ARCHIVE == 64

----------------------------------------------------------------------------
(* Decimal strings: a string of digits is the sequence of its digits *)

RECURSIVE toString(_)
toString(n) == IF n < 10 THEN <<n>> ELSE Append(toString(n \div 10), n % 10)

RECURSIVE parseInt(_)
parseInt(s) ==
  IF Len(s) = 0 THEN 0
  ELSE parseInt(SubSeq(s, 1, Len(s) - 1)) * 10 + s[Len(s)]

----------------------------------------------------------------------------
(* The Rule Oracle: a small game in place of chess.  A position is the     *)
(* list of moves played.  "a" and "b" are quiet moves, "m" mates, "s"      *)
(* stalemates, "i" leaves insufficient material, "r" repeats the position  *)
(* a third time, "x" is never legal; nothing is legal once the game is     *)
(* over.                                                                   *)

Sans      == {"a", "b", "m", "s", "i", "r", "x"}
StartPos  == << >>

isCheckmate(h) == Len(h) > 0 /\ h[Len(h)] = "m"
isStalemate(h) == Len(h) > 0 /\ h[Len(h)] = "s"
isInsufficientMaterial(h) == Len(h) > 0 /\ h[Len(h)] = "i"
isThreefoldRepetition(h)  == Len(h) > 0 /\ h[Len(h)] = "r"
isDraw(h)      == isStalemate(h) \/ isInsufficientMaterial(h) \/ isThreefoldRepetition(h)
isGameOver(h)  == isCheckmate(h) \/ isDraw(h)
turn(h)        == IF Len(h) % 2 = 0 THEN "w" ELSE "b"

IsLegal(h, san) == ~isGameOver(h) /\ san \in {"a", "b", "m", "s", "i", "r"}

----------------------------------------------------------------------------
(* JSON text: JSON.stringify of a value is a text that JSON.parse turns    *)
(* back into the value; any other text makes JSON.parse throw.             *)

JSONstringify(value) == <<"json", value>>
JSONparses(text)     == text[1] = "json"
JSONparse(text)      == text[2]

----------------------------------------------------------------------------
(* Events *)

\* event.tags.find(t => t[0] === tagName) finds a tag
HasTag(e, tagName) == \E i \in DOMAIN e.tags : e.tags[i][1] = tagName

\* getTagValue where the tag is present: the value of the first such tag
getTagValue(e, tagName) ==
  e.tags[CHOOSE i \in DOMAIN e.tags :
           /\ e.tags[i][1] = tagName
           /\ \A j \in 1..(i - 1) : e.tags[j][1] # tagName][2]

\* createEventTemplate
createEventTemplate(kind, content, tags, now) ==
  [kind |-> kind, content |-> content, tags |-> tags, created_at |-> now]

\* signEvent / finalizeEvent: adds pubkey, id (the hash of the event, here the
\* value `id`, distinct for distinct events) and the signature of the id
signEvent(template, privateKey, id) ==
  [kind       |-> template.kind,
   content    |-> template.content,
   tags       |-> template.tags,
   created_at |-> template.created_at,
   pubkey     |-> getPublicKey(privateKey),
   id         |-> id,
   sig        |-> Sign(id, getPublicKey(privateKey))]

\* createMoveEvent: the tags of a move event
MoveTags(gameId, moveNumber, san, fen, whitePubkey, blackPubkey, previousEventId) ==
  LET t == IF moveNumber % 2 = 1 THEN "white" ELSE "black"
      tags == << <<"d", <<"game-", gameId>> >>,
                 <<"game", gameId>>,
                 <<"move", toString(moveNumber)>>,
                 <<"turn", t>>,
                 <<"san", san>>,
                 <<"fen", fen>>,
                 <<"p", whitePubkey>>,
                 <<"p", blackPubkey>> >>
  IN IF previousEventId # NoEvent
       THEN Append(tags, <<"e", previousEventId>>)
       ELSE tags

createMoveEvent(privateKey, gameId, moveNumber, san, fen, whitePubkey, blackPubkey, previousEventId, now, id) ==
  signEvent(createEventTemplate(LIVE_GAME, san,
              MoveTags(gameId, moveNumber, san, fen,
                       whitePubkey, blackPubkey, previousEventId), now),
            privateKey, id)

\* a sort key taken from the timestamp instead of the move tag
CreatedAtOf(e) == e.created_at

\* parseInt(getTagValue(e, 'move') || '0')
MoveNumberOf(e) ==
  IF HasTag(e, "move") THEN parseInt(getTagValue(e, "move")) ELSE parseInt(<<0>>)

ParentOf(e) == IF HasTag(e, "e") THEN getTagValue(e, "e") ELSE NoEvent

\* validateEventSignature: id, sig and pubkey are all defined
validateEventSignature(e) == {"id", "sig", "pubkey"} \subseteq DOMAIN e

----------------------------------------------------------------------------
(* The messages of the session *)

\* the honest game: white and black alternate quiet moves
SanAt(k)   == IF k % 2 = 1 THEN "a" ELSE "b"
FenAt(k)   == [i \in 1..k |-> SanAt(i)]
MoverSk(k) == IF k % 2 = 1 THEN "skW" ELSE "skB"

\* ply k of the honest game, as GameService.publishMove builds it; the id of
\* ply k is "k" and its parent is ply k-1
ChainId(k) == ToString(k)
ChainEvent(k) ==
  createMoveEvent(MoverSk(k), GameId, k, SanAt(k), FenAt(k), WhiteKey, BlackKey,
                  IF k = 1 THEN NoEvent ELSE ChainId(k - 1), k, ChainId(k))

ChainSet == {ChainEvent(k) : k \in 1..MaxPly}
CanonicalChain == [k \in 1..MaxPly |-> ChainEvent(k)]

\* black's second reply to ply 1: a sibling of ply 2
ForkEvent ==
  createMoveEvent("skB", GameId, 2, "a", <<"a", "a">>, WhiteKey, BlackKey, ChainId(1), 2, "fork")

\* a move whose parent is no message of the session
OrphanEvent ==
  createMoveEvent("skW", GameId, 3, "a", <<"a", "b", "a">>, WhiteKey, BlackKey,
                  GhostId, 3, "orphan")

\* a move carrying black's key and a signature that does not verify
ForgedEvent ==
  [createMoveEvent("skB", GameId, 2, "b", <<"a", "b">>, WhiteKey, BlackKey, ChainId(1), 2, "forged")
     EXCEPT !.sig = BadSig]

\* a reply to ply 1 signed by a key that is not a player of the session
ThirdPartyEvent ==
  createMoveEvent("skT", GameId, 2, "b", <<"a", "b">>, WhiteKey, BlackKey, ChainId(1), 2, "third")

\* the messages the two runs of the timestamp comparison ingest
StampUniverse == ChainSet \cup {ForkEvent}

ForeignSet   == {ForkEvent, OrphanEvent, ForgedEvent, ThirdPartyEvent}
MoveUniverse == ChainSet \cup ForeignSet

----------------------------------------------------------------------------
(* Sorting by move number.  Array.prototype.sort is stable: events with    *)
(* the same move number keep their relative order.                         *)

\* the position at which x goes into the sorted sequence s: after every
\* element whose move number is not greater
RECURSIVE InsertByMove(_, _)
InsertByMove(s, x) ==
  IF Len(s) = 0 THEN <<x>>
  ELSE IF MoveNumberOf(s[Len(s)]) <= MoveNumberOf(x)
         THEN Append(s, x)
         ELSE Append(InsertByMove(SubSeq(s, 1, Len(s) - 1), x), s[Len(s)])

\* events.sort((a, b) => moveA - moveB)
RECURSIVE SortByMove(_)
SortByMove(s) ==
  IF Len(s) = 0 THEN << >>
  ELSE InsertByMove(SortByMove(SubSeq(s, 1, Len(s) - 1)), s[Len(s)])

IdsOf(s)      == {s[i].id : i \in DOMAIN s}
InList(s, id) == \E i \in DOMAIN s : s[i].id = id

\* every order in which the relay can list the set S
Orders(S) ==
  {f \in [1..Cardinality(S) -> S] : \A i, j \in DOMAIN f : i # j => f[i] # f[j]}

----------------------------------------------------------------------------
(* The relay.  A kind 30000-39999 event is addressable: the relay keeps    *)
(* one live value per kind, author and d tag, the last one it received.    *)

AddressKey(e) == getTagValue(e, "d")
AddressOf(e)  == <<e.kind, e.pubkey, AddressKey(e)>>

RelayStore(store, e) ==
  {x \in store : AddressOf(x) # AddressOf(e)} \cup {e}

----------------------------------------------------------------------------
(* useGameMoves *)

\* the subscription callback without its duplicate check
OnMoveNoDedup(prev, event) == SortByMove(Append(prev, event))

\* the subscription callback: setMoves(prev => ...)
OnMove(prev, event) ==
  IF InList(prev, event.id) THEN prev
  ELSE SortByMove(Append(prev, event))

\* GameService.publishMove: the event reaches the relays.  An event that
\* names a parent of the session is built from the parent's id, so it is
\* published after its parent.
PublishMove(e) ==
  /\ e \in MoveUniverse \ published
  /\ ParentOf(e) \in {NoEvent, GhostId} \cup {x.id : x \in published}
  /\ e \in ForeignSet => Cardinality(published \cap ForeignSet) < MaxForeign
  /\ published' = published \cup {e}
  /\ relay' = RelayStore(relay, e)
  /\ lastOp' = "publish"
  /\ UNCHANGED <<mounted, query, queryResult, moves, seen, subs>>

\* the effect of useGameMoves runs: getGameMoves is called, then the
\* subscription is opened
Mount ==
  /\ ~mounted
  /\ subs < MaxMounts
  /\ subs' = subs + 1
  /\ mounted' = TRUE
  /\ query' = "pending"
  /\ lastOp' = "mount"
  /\ UNCHANGED <<published, relay, queryResult, moves, seen>>

\* getGameMoves: the relay answers the query with its live events in some
\* order, and the result is sorted by move number
QueryServe ==
  /\ query = "pending"
  /\ \E order \in Orders(relay) : queryResult' = SortByMove(order)
  /\ query' = "served"
  /\ lastOp' = "serve"
  /\ UNCHANGED <<published, relay, mounted, moves, seen, subs>>

\* NostrClient.querySync catches a failed query and returns []
QueryFail ==
  /\ query = "pending"
  /\ queryResult' = SortByMove(<< >>)
  /\ query' = "served"
  /\ lastOp' = "fail"
  /\ UNCHANGED <<published, relay, mounted, moves, seen, subs>>

\* getGameMoves(gameId).then(setMoves)
QueryResolve ==
  /\ query = "served"
  /\ moves' = queryResult
  /\ seen' = seen \cup IdsOf(queryResult)
  /\ query' = "done"
  /\ lastOp' = "resolve"
  /\ UNCHANGED <<published, relay, mounted, queryResult, subs>>

\* the subscription hands an event to the callback; the transport delivers
\* at least once and in any order
SubDeliver(e) ==
  /\ mounted
  /\ e \in published
  /\ moves' = OnMove(moves, e)
  /\ seen' = seen \cup {e.id}
  /\ lastOp' = IF InList(moves, e.id) THEN "redeliver" ELSE "deliver"
  /\ UNCHANGED <<published, relay, mounted, query, queryResult, subs>>

----------------------------------------------------------------------------
Undefined == [undefined |-> TRUE]
NoGame    == [null |-> TRUE]     \* currentGame: null
\* the ids subscribe hands out, and an id it never handed out
SubId(n)     == "sub-" \o ToString(n)
UnknownSubId == "sub-unknown"
SubIds       == {SubId(n) : n \in 1..MaxSubs} \cup {UnknownSubId}

\* the store's initial relayStatus: the empty list
NoRelayStatus == [r \in {} |-> FALSE]

NoSession == ""
NoSelection == << >>             \* selectedMove: null
NoFilter  == "closed"
Players == {WhiteKey, BlackKey}
Peers   == {"p1", "p2"}

InitSession ==
  /\ published = {}
  /\ relay = {}
  /\ mounted = FALSE
  /\ query = "idle"
  /\ queryResult = << >>
  /\ moves = << >>
  /\ seen = {}
  /\ lastOp = "init"
  /\ subs = 0
  /\ archives = << >>
  /\ svcKey = [p \in Players |-> NoKey]
  /\ observed = [p \in Players |-> NoEvent]
  /\ archPc = [p \in Players |-> "idle"]
  /\ archTried = [p \in Players |-> 0]
  /\ currentGame = NoGame
  /\ lastMove = "none"
  /\ gameHistory = << >>
  /\ selectedMove = NoSelection
  /\ accPublished = {}
  /\ handed = [p \in Peers |-> << >>]
  /\ accSub = [p \in Peers |-> FALSE]
  /\ peerGame = [p \in Peers |-> NoSession]
  /\ clock = 0
  /\ offNow = 0
  /\ offerRelay = {}
  /\ offMounted = FALSE
  /\ offQuery = "idle"
  /\ offers = << >>
  /\ offHandedNow = {}
  /\ myOffers = << >>
  /\ uuidCount = 0
  /\ offOutcome = [op |-> "none", arg |-> "", owned |-> FALSE, result |-> "none", attempts |-> 0]
  /\ runA = << >>
  /\ runB = << >>
  /\ connected = FALSE
  /\ pubPromise = "none"
  /\ answered = << >>
  /\ pubCalls = 0
  /\ subscriptions = {}
  /\ closeCalls = [id \in SubIds |-> 0]
  /\ subCount = 0
  /\ clientOp = [op |-> "new", id |-> ""]
  /\ reached = {}
  /\ relayStatus = NoRelayStatus
  /\ isConnected = FALSE
  /\ tripOffer = Undefined
  /\ tripNow = 0
  /\ tripEvent = Undefined
  /\ tripDecoded = Undefined
  /\ accFilter = [p \in Players |-> NoFilter]

\* the relays a configuration can name
Relays == 1..MaxRelays

\* every message keeps the created_at it was published with, and the client
\* is configured with every relay
Init ==
  /\ InitSession
  /\ stampOf = [e \in StampUniverse |-> e.created_at]
  /\ clientRelays = Relays

Next ==
  \/ \E e \in MoveUniverse : PublishMove(e) /\ UNCHANGED <<archiveVars, storeVars, acceptVars, forkVars, offerVars, stampVars, pubVars, tripVars, initVars>>
  \/ Mount /\ UNCHANGED <<archiveVars, storeVars, acceptVars, forkVars, offerVars, stampVars, pubVars, tripVars, initVars>>
  \/ QueryServe /\ UNCHANGED <<archiveVars, storeVars, acceptVars, forkVars, offerVars, stampVars, pubVars, tripVars, initVars>>
  \/ QueryFail /\ UNCHANGED <<archiveVars, storeVars, acceptVars, forkVars, offerVars, stampVars, pubVars, tripVars, initVars>>
  \/ QueryResolve /\ UNCHANGED <<archiveVars, storeVars, acceptVars, forkVars, offerVars, stampVars, pubVars, tripVars, initVars>>
  \/ \E e \in MoveUniverse : SubDeliver(e) /\ UNCHANGED <<archiveVars, storeVars, acceptVars, forkVars, offerVars, stampVars, pubVars, tripVars, initVars>>

Spec == Init /\ [][Next]_vars

----------------------------------------------------------------------------
(* What the session's rules say of a single move message *)

\* the author is the player whose ply it is: white on odd plies
ExpectedMover(e) ==
  e.pubkey = (IF MoveNumberOf(e) % 2 = 1 THEN WhiteKey ELSE BlackKey)

\* the position the move is played from: the parent's resulting position
HasParentFen(e) ==
  ParentOf(e) = NoEvent \/ \E x \in published : x.id = ParentOf(e)
ParentFen(e) ==
  IF ParentOf(e) = NoEvent THEN StartPos
  ELSE getTagValue(CHOOSE x \in published : x.id = ParentOf(e), "fen")

\* the Rule Oracle accepts the notation and yields the stated position
OracleAccepts(e) ==
  /\ HasParentFen(e)
  /\ IsLegal(ParentFen(e), getTagValue(e, "san"))
  /\ getTagValue(e, "fen") = Append(ParentFen(e), getTagValue(e, "san"))

ValidMove(e) == SigVerifies(e) /\ ExpectedMover(e) /\ OracleAccepts(e)

----------------------------------------------------------------------------
(* Claims on the move feed (Spec) *)

\* C1: once every ply of the honest, non-forking game has been handed to
\* the hook (by the query or by the subscription) and the query has
\* completed, the move list is the chain in ply order, whatever the order
\* of delivery was.
C1_OrderIndependent ==
  (/\ published = ChainSet
   /\ query = "done"
   /\ seen = IdsOf(CanonicalChain))
  => moves = CanonicalChain

\* C2: a subscription delivery of an event whose id is already in the move
\* list leaves the list, its order and its positions unchanged.
C2_RedeliveryNoOp ==
  [][\A e \in MoveUniverse :
       (SubDeliver(e) /\ InList(moves, e.id)) => moves' = moves]_vars

C2_Witness == lastOp = "redeliver" /\ Len(moves) >= 2

\* C3: two valid moves with the same parent and different ids are never
\* both (nor either) in the move list: a fork is not applied.
C3_ForkNotApplied ==
  \A i, j \in DOMAIN moves :
    (/\ ValidMove(moves[i]) /\ ValidMove(moves[j])
     /\ ParentOf(moves[i]) = ParentOf(moves[j]))
    => moves[i].id = moves[j].id

\* C4: a move whose parent is no message of the session is never in the
\* move list.
C4_OrphanIgnored ==
  \A i \in DOMAIN moves :
    ParentOf(moves[i]) \in {NoEvent} \cup {x.id : x \in published}

\* C5: validateEventSignature accepts a received event only if its
\* signature verifies, and no event with a bad signature is in the move list.
C5_BadSignatureRejected ==
  /\ \A e \in published : validateEventSignature(e) => SigVerifies(e)
  /\ \A i \in DOMAIN moves : SigVerifies(moves[i])

\* C6: every event in the move list whose parent position is known is
\* authored by the player whose ply it is and is a move the Rule Oracle
\* accepts from that position, yielding the position it states.
C6_OnlyExpectedMover ==
  \A i \in DOMAIN moves :
    HasParentFen(moves[i]) => ExpectedMover(moves[i]) /\ OracleAccepts(moves[i])

\* C7: moves with different move indexes have different address keys, and
\* every ply of the honest game that was published is still held by the relay.
C7_PliesRetrievable ==
  /\ \A e1, e2 \in published :
       MoveNumberOf(e1) # MoveNumberOf(e2) => AddressKey(e1) # AddressKey(e2)
  /\ (published \subseteq ChainSet => published \subseteq relay)

----------------------------------------------------------------------------
(* Archiving: GameService.archiveGame and getGameArchive of both players   *)

\* archiveGame calls one player starts
MaxArchiveCalls == 2

SecretOf(p) == IF p = WhiteKey THEN "skW" ELSE "skB"

\* createGameArchiveEvent
createGameArchiveEvent(privateKey, pgn, gameId, whitePubkey, blackPubkey, result, variant, now, id) ==
  signEvent(createEventTemplate(FINAL_ARCHIVE, pgn,
              << <<"t", "chess-game">>,
                 <<"game", gameId>>,
                 <<"white", whitePubkey>>,
                 <<"black", blackPubkey>>,
                 <<"result", result>>,
                 <<"variant", variant>> >>, now),
            privateKey, id)

\* the archive event of player p's n-th archiveGame call for the finished game
ArchiveEventOf(p, n) ==
  createGameArchiveEvent(svcKey[p], <<"a", "m">>, GameId, WhiteKey, BlackKey,
                         "1-0", "classical", n, "arch-" \o p \o ToString(n))

\* GameService.initialize
Initialize(p) ==
  /\ svcKey[p] = NoKey
  /\ svcKey' = [svcKey EXCEPT ![p] = SecretOf(p)]
  /\ UNCHANGED <<archives, observed, archPc, archTried>>

\* getGameArchive: events[0] || null, of whatever the relays list first; a
\* failed query is an empty list
GetGameArchive(p) ==
  /\ \/ /\ archives # << >>
        /\ \E i \in DOMAIN archives :
             observed' = [observed EXCEPT ![p] = archives[i].id]
     \/ observed' = [observed EXCEPT ![p] = NoEvent]
  /\ UNCHANGED <<archives, svcKey, archPc, archTried>>

\* archiveGame up to `await this.client.publish(event)`: throws before
\* initialize, otherwise builds the event and sends it
ArchiveGame(p) ==
  /\ archPc[p] # "publishing"
  /\ archTried[p] < MaxArchiveCalls
  /\ archTried' = [archTried EXCEPT ![p] = @ + 1]
  /\ archPc' = [archPc EXCEPT ![p] =
                  IF svcKey[p] = NoKey THEN "threw" ELSE "publishing"]
  /\ UNCHANGED <<archives, svcKey, observed>>

\* a relay confirms the archive event: publish resolves
ArchivePublished(p) ==
  /\ archPc[p] = "publishing"
  /\ archives' = Append(archives, ArchiveEventOf(p, archTried[p]))
  /\ archPc' = [archPc EXCEPT ![p] = "resolved"]
  /\ UNCHANGED <<svcKey, observed, archTried>>

\* no relay accepts the event: publish rejects and archiveGame rethrows
ArchiveRejected(p) ==
  /\ archPc[p] = "publishing"
  /\ archPc' = [archPc EXCEPT ![p] = "rejected"]
  /\ UNCHANGED <<archives, svcKey, observed, archTried>>

NextArchive ==
  \/ \E p \in Players : Initialize(p) /\ UNCHANGED <<feedVars, storeVars, acceptVars, forkVars, offerVars, stampVars, pubVars, tripVars, initVars>>
  \/ \E p \in Players : GetGameArchive(p) /\ UNCHANGED <<feedVars, storeVars, acceptVars, forkVars, offerVars, stampVars, pubVars, tripVars, initVars>>
  \/ \E p \in Players : ArchiveGame(p) /\ UNCHANGED <<feedVars, storeVars, acceptVars, forkVars, offerVars, stampVars, pubVars, tripVars, initVars>>
  \/ \E p \in Players : ArchivePublished(p) /\ UNCHANGED <<feedVars, storeVars, acceptVars, forkVars, offerVars, stampVars, pubVars, tripVars, initVars>>
  \/ \E p \in Players : ArchiveRejected(p) /\ UNCHANGED <<feedVars, storeVars, acceptVars, forkVars, offerVars, stampVars, pubVars, tripVars, initVars>>

SpecArchive == Init /\ [][NextArchive]_vars

\* C8: whatever the interleaving of the two players' attempts, at most one
\* archive record of the session is ever published.
C8_SingleArchive == Len(archives) <= 1

----------------------------------------------------------------------------
(* The application store: startGame and makeMove on a game built by        *)
(* createGameState.  The game's `chess` engine is the list of moves played. *)

\* moves played in one game
MaxMoves == 4

\* createGameState
createGameState(gameId, whitePubkey, blackPubkey) ==
  [id         |-> gameId,
   status     |-> "active",
   white      |-> whitePubkey,
   black      |-> blackPubkey,
   moves      |-> << >>,
   currentFen |-> StartPos,
   result     |-> "undefined",
   chess      |-> StartPos]

\* Math.floor(n / 2) in place of Math.ceil(n / 2)
FloorHalf(n) == n \div 2

\* Math.ceil(n / 2)
CeilHalf(n) == (n + 1) \div 2

\* the record with the position read before the move was played
NewMoveStaleFen(h) ==
  [san        |-> h[Len(h)],
   fen        |-> SubSeq(h, 1, Len(h) - 1),
   moveNumber |-> CeilHalf(Len(h)),
   color      |-> IF turn(SubSeq(h, 1, Len(h) - 1)) = "w" THEN "white" ELSE "black",
   eventId    |-> ""]

\* the record makeMove appends for the move just played; h is the engine's
\* history after the move
NewMove(h) ==
  [san        |-> h[Len(h)],
   fen        |-> h,
   moveNumber |-> CeilHalf(Len(h)),
   color      |-> IF turn(SubSeq(h, 1, Len(h) - 1)) = "w" THEN "white" ELSE "black",
   eventId    |-> ""]

\* the result with the winner of a checkmate read from the side to move
\* instead of the mover
MoveResultSideToMove(h) ==
  IF isGameOver(h)
    THEN (IF isCheckmate(h)
            THEN (IF turn(h) = "w" THEN "1-0" ELSE "0-1")
            ELSE "1/2-1/2")
    ELSE "undefined"

\* the result makeMove stores for the position h reached by the mover
MoveResult(h) ==
  IF isGameOver(h)
    THEN (IF isCheckmate(h)
            THEN (IF turn(SubSeq(h, 1, Len(h) - 1)) = "w" THEN "1-0" ELSE "0-1")
            ELSE "1/2-1/2")
    ELSE "undefined"

\* startGame(createGameState(...))
StartGame ==
  /\ currentGame' = createGameState(GameId, WhiteKey, BlackKey)
  /\ lastMove' = "none"
  /\ UNCHANGED <<gameHistory, selectedMove>>

\* makeMove without the engine's answer: the move is played and recorded
\* whatever it is
MakeMoveUnchecked(san) ==
  IF currentGame = NoGame
    THEN lastMove' = "false" /\ UNCHANGED <<currentGame, gameHistory, selectedMove>>
  ELSE
    /\ UNCHANGED <<gameHistory, selectedMove>>
    /\ Len(currentGame.chess) < MaxMoves
    /\ LET h == Append(currentGame.chess, san)
       IN currentGame' = [currentGame EXCEPT
                            !.chess      = h,
                            !.moves      = Append(@, NewMove(h)),
                            !.currentFen = h,
                            !.result     = MoveResult(h)]
    /\ lastMove' = "true"

\* makeMove(san): false without a game or when the engine refuses the move;
\* otherwise the move is played on the engine and recorded in the game
MakeMove(san) ==
  IF currentGame = NoGame
    THEN lastMove' = "false" /\ UNCHANGED <<currentGame, gameHistory, selectedMove>>
  ELSE IF ~IsLegal(currentGame.chess, san)
    THEN lastMove' = "false" /\ UNCHANGED <<currentGame, gameHistory, selectedMove>>
  ELSE
    /\ UNCHANGED <<gameHistory, selectedMove>>
    /\ Len(currentGame.chess) < MaxMoves
    /\ LET h == Append(currentGame.chess, san)
       IN currentGame' = [currentGame EXCEPT
                            !.chess      = h,
                            !.moves      = Append(@, NewMove(h)),
                            !.currentFen = h,
                            !.result     = MoveResult(h)]
    /\ lastMove' = "true"

\* the record endGame builds from the current game
GameRecordOf(game) ==
  [id     |-> game.id,
   pgn    |-> game.chess,
   white  |-> game.white,
   black  |-> game.black,
   result |-> IF game.result = "undefined" THEN "*" ELSE game.result]

\* endGame(): with a current game, its record goes to the front of the
\* history and the current game becomes null; without one nothing happens
EndGame ==
  /\ currentGame # NoGame
  /\ Len(gameHistory) < MaxHistory
  /\ gameHistory' = <<GameRecordOf(currentGame)>> \o gameHistory
  /\ currentGame' = NoGame
  /\ selectedMove' = NoSelection
  /\ UNCHANGED lastMove

\* selectMove(moveIndex)
SelectMove(moveIndex) ==
  /\ selectedMove' = moveIndex
  /\ UNCHANGED <<currentGame, lastMove, gameHistory>>

NextStore ==
  \/ StartGame /\ UNCHANGED <<feedVars, archiveVars, acceptVars, forkVars, offerVars, stampVars, pubVars, tripVars, initVars>>
  \/ \E san \in Sans : MakeMove(san) /\ UNCHANGED <<feedVars, archiveVars, acceptVars, forkVars, offerVars, stampVars, pubVars, tripVars, initVars>>

SpecStore == Init /\ [][NextStore]_vars

\* the store with its history and its selection; the moves played are a
\* quiet move, a mate and a move the engine refuses
HistorySans == {"a", "m", "x"}
MoveIndexes == {NoSelection} \cup {<<k>> : k \in 0..MaxMoves}

NextHistory ==
  \/ StartGame /\ UNCHANGED <<feedVars, archiveVars, acceptVars, forkVars, offerVars, stampVars, pubVars, tripVars, initVars>>
  \/ \E san \in HistorySans : MakeMove(san) /\ UNCHANGED <<feedVars, archiveVars, acceptVars, forkVars, offerVars, stampVars, pubVars, tripVars, initVars>>
  \/ EndGame /\ UNCHANGED <<feedVars, archiveVars, acceptVars, forkVars, offerVars, stampVars, pubVars, tripVars, initVars>>
  \/ \E moveIndex \in MoveIndexes : SelectMove(moveIndex) /\ UNCHANGED <<feedVars, archiveVars, acceptVars, forkVars, offerVars, stampVars, pubVars, tripVars, initVars>>

SpecHistory == Init /\ [][NextHistory]_vars

\* C9: a game whose last accepted move produced a terminal position has
\* status completed.
C9_TerminalCompletes ==
  (currentGame # NoGame /\ isGameOver(currentGame.chess))
  => currentGame.status = "completed"

----------------------------------------------------------------------------
(* Acceptances of one offer.  Peer p1 issued the offer; p2 and a third     *)
(* player accept it.  An event id is a hex string, here the sequence of    *)
(* its digits.                                                             *)

\* acceptances one peer's callback is handed, repeats included
MaxHanded == 3

OfferId      == <<7, 7>>
OtherOfferId == <<9, 9>>       \* another offer of the same issuer
IssuerKey    == WhiteKey

PeerKey(p) == IF p = "p1" THEN IssuerKey ELSE BlackKey

\* createGameAcceptanceEvent
createGameAcceptanceEvent(privateKey, offerEventId, offerPubkey, gameId, now, id) ==
  signEvent(createEventTemplate(GAME_OFFER, JSONstringify([accept |-> TRUE, gameId |-> gameId]),
              << <<"t", "chess-accept">>,
                 <<"e", offerEventId>>,
                 <<"p", offerPubkey>>,
                 <<"game", gameId>> >>, now),
            privateKey, id)

\* the two acceptances of the offer, black's and the third player's, and
\* black's acceptance of the issuer's other offer
Acceptances ==
  {createGameAcceptanceEvent("skB", OfferId, IssuerKey, "gB", 1, <<2, 5>>),
   createGameAcceptanceEvent("skT", OfferId, IssuerKey, "gT", 1, <<2, 3>>),
   createGameAcceptanceEvent("skB", OtherOfferId, IssuerKey, "gO", 1, <<1, 1>>)}

AcceptancesOf(offerId) == {a \in Acceptances : getTagValue(a, "e") = offerId}

\* lexicographic order of hex strings
RECURSIVE LexLess(_, _)
LexLess(a, b) ==
  IF Len(b) = 0 THEN FALSE
  ELSE IF Len(a) = 0 THEN TRUE
  ELSE IF a[1] # b[1] THEN a[1] < b[1]
  ELSE LexLess(Tail(a), Tail(b))

\* the acceptance with the lexicographically smallest id
SmallestAcceptance(S) == CHOOSE a \in S : \A b \in S : b = a \/ LexLess(a.id, b.id)

\* GameService.acceptGameOffer: the acceptance reaches the relays
PublishAcceptance(a) ==
  /\ a \in Acceptances \ accPublished
  /\ accPublished' = accPublished \cup {a}
  /\ UNCHANGED <<handed, accSub, peerGame>>

\* subscribeToGameAcceptances: kind 1491, #t chess-accept, #p own public key
SubscribeToGameAcceptances(p) ==
  /\ ~accSub[p]
  /\ accSub' = [accSub EXCEPT ![p] = TRUE]
  /\ UNCHANGED <<accPublished, handed, peerGame>>

\* the subscription's filter
MatchesAcceptFilter(p, a) ==
  /\ a.kind = GAME_OFFER
  /\ getTagValue(a, "t") = "chess-accept"
  /\ getTagValue(a, "p") = PeerKey(p)

\* an acceptance matching the filter is passed to onAcceptance, as it arrives
DeliverAcceptance(p, a) ==
  /\ accSub[p]
  /\ a \in accPublished
  /\ MatchesAcceptFilter(p, a)
  /\ Len(handed[p]) < MaxHanded
  /\ handed' = [handed EXCEPT ![p] = Append(@, a)]
  /\ UNCHANGED <<accPublished, accSub, peerGame>>

\* the store's acceptGameOffer: logs the offer id and changes nothing
StoreAcceptGameOffer(p) ==
  /\ handed[p] # << >>
  /\ UNCHANGED <<accPublished, handed, accSub, peerGame>>

NextAccept ==
  \/ \E a \in Acceptances : PublishAcceptance(a) /\ UNCHANGED <<feedVars, archiveVars, storeVars, forkVars, offerVars, stampVars, pubVars, tripVars, initVars>>
  \/ \E p \in Peers : SubscribeToGameAcceptances(p) /\ UNCHANGED <<feedVars, archiveVars, storeVars, forkVars, offerVars, stampVars, pubVars, tripVars, initVars>>
  \/ \E p \in Peers, a \in Acceptances : DeliverAcceptance(p, a) /\ UNCHANGED <<feedVars, archiveVars, storeVars, forkVars, offerVars, stampVars, pubVars, tripVars, initVars>>
  \/ \E p \in Peers : StoreAcceptGameOffer(p) /\ UNCHANGED <<feedVars, archiveVars, storeVars, forkVars, offerVars, stampVars, pubVars, tripVars, initVars>>

SpecAccept == Init /\ [][NextAccept]_vars

\* C10: a peer that has observed both acceptances of the offer has adopted
\* the session of the one with the lexicographically smallest id, whatever
\* the order in which they arrived.
C10_SmallestIdCanonical ==
  \A p \in Peers :
    AcceptancesOf(OfferId) \subseteq {handed[p][i] : i \in DOMAIN handed[p]}
    => peerGame[p] = getTagValue(SmallestAcceptance(AcceptancesOf(OfferId)), "game")

----------------------------------------------------------------------------
(* Forks and their resolution.  Black answers ply 1 twice (ply 2 and its   *)
(* sibling); a resolution travels on the move channel: a kind-34609 event  *)
(* of the game carrying a "resolution" marker.  The session is the store's *)
(* currentGame, the peer's chain is the `moves` of useGameMoves.           *)

\* resolution messages published in one session
MaxResolutions == 1

\* a resolution message: marker "accept" names the chosen child in its e
\* tag, marker "forfeit" names the player it is declared against
ResolutionEvent(privateKey, marker, forkParentId, chosenChildId, forfeitAgainst, now, id) ==
  signEvent(createEventTemplate(LIVE_GAME, marker,
              << <<"d", <<"game-", GameId>> >>,
                 <<"game", GameId>>,
                 <<"resolution", marker>>,
                 <<"parent", forkParentId>>,
                 <<"forfeit", forfeitAgainst>>,
                 <<"chosen", chosenChildId>> >>, now),
            privateKey, id)

\* white, the resolver, accepts ply 2
AcceptOneEvent ==
  ResolutionEvent("skW", "accept", ChainId(1), ChainId(2), NoKey, 3, "accept")

\* white, the resolver, declares black's forfeit
ForfeitEvent ==
  ResolutionEvent("skW", "forfeit", ChainId(1), NoEvent, BlackKey, 3, "forfeit")

\* black, the author of both siblings, resolves the fork in its own favour
AuthorResolutionEvent ==
  ResolutionEvent("skB", "forfeit", ChainId(1), NoEvent, WhiteKey, 3, "selfserve")

ForkMoves     == {ChainEvent(1), ChainEvent(2), ForkEvent}
Resolutions   == {AcceptOneEvent, ForfeitEvent, AuthorResolutionEvent}
ForkUniverse  == ForkMoves \cup Resolutions

IsResolution(e) == HasTag(e, "resolution")

\* NostrClient.publish of a resolution message, once both siblings are out
PublishResolution(r) ==
  /\ r \in Resolutions \ published
  /\ {ChainEvent(2), ForkEvent} \subseteq published
  /\ Cardinality(published \cap Resolutions) < MaxResolutions
  /\ published' = published \cup {r}
  /\ relay' = RelayStore(relay, r)
  /\ lastOp' = "publish"
  /\ UNCHANGED <<mounted, query, queryResult, moves, seen, subs>>

\* the peer holds two different moves with the same parent
Forked ==
  \E i, j \in DOMAIN moves :
    /\ ~IsResolution(moves[i]) /\ ~IsResolution(moves[j])
    /\ ParentOf(moves[i]) = ParentOf(moves[j])
    /\ moves[i].id # moves[j].id

\* ticks of the grace period that are counted
GracePeriod == 2

\* time passes while the peer holds a fork
Tick ==
  /\ Forked
  /\ clock <= GracePeriod
  /\ clock' = clock + 1

NextFork ==
  \/ \E e \in ForkMoves : PublishMove(e) /\ UNCHANGED <<archiveVars, storeVars, acceptVars, forkVars, offerVars, stampVars, pubVars, tripVars, initVars>>
  \/ \E r \in Resolutions : PublishResolution(r) /\ UNCHANGED <<archiveVars, storeVars, acceptVars, forkVars, offerVars, stampVars, pubVars, tripVars, initVars>>
  \/ Mount /\ UNCHANGED <<archiveVars, storeVars, acceptVars, forkVars, offerVars, stampVars, pubVars, tripVars, initVars>>
  \/ QueryServe /\ UNCHANGED <<archiveVars, storeVars, acceptVars, forkVars, offerVars, stampVars, pubVars, tripVars, initVars>>
  \/ QueryFail /\ UNCHANGED <<archiveVars, storeVars, acceptVars, forkVars, offerVars, stampVars, pubVars, tripVars, initVars>>
  \/ QueryResolve /\ UNCHANGED <<archiveVars, storeVars, acceptVars, forkVars, offerVars, stampVars, pubVars, tripVars, initVars>>
  \/ \E e \in ForkUniverse : SubDeliver(e) /\ UNCHANGED <<archiveVars, storeVars, acceptVars, forkVars, offerVars, stampVars, pubVars, tripVars, initVars>>
  \/ StartGame /\ UNCHANGED <<feedVars, archiveVars, acceptVars, forkVars, offerVars, stampVars, pubVars, tripVars, initVars>>
  \/ Tick /\ UNCHANGED <<feedVars, archiveVars, storeVars, acceptVars, offerVars, stampVars, pubVars, tripVars, initVars>>

SpecFork == Init /\ [][NextFork]_vars

\* the authors of the siblings under parent id `parent`
SiblingAuthors(parent) ==
  {e.pubkey : e \in {x \in published : ~IsResolution(x) /\ ParentOf(x) = parent
                       /\ \E y \in published : /\ ~IsResolution(y) /\ y.id # x.id
                                               /\ ParentOf(y) = parent}}

\* a resolution issued by the player who did not author the siblings
ByResolver(r) == r.pubkey \in Players \ SiblingAuthors(getTagValue(r, "parent"))

\* C11: once an accept-one resolution of the resolver is in the peer's
\* chain, the only child of the fork's parent in the chain is the chosen one.
C11_AcceptOneKeepsChosen ==
  \A k, i \in DOMAIN moves :
    (/\ IsResolution(moves[k]) /\ getTagValue(moves[k], "resolution") = "accept"
     /\ ByResolver(moves[k])
     /\ ~IsResolution(moves[i])
     /\ ParentOf(moves[i]) = getTagValue(moves[k], "parent"))
    => moves[i].id = getTagValue(moves[k], "chosen")

\* C12: once the resolver's declare-forfeit is observed the session is
\* completed with the resolver as winner, and no resolution authored by the
\* siblings' author is ever taken up.
C12_ForfeitCompletes ==
  /\ \A k \in DOMAIN moves :
       (/\ currentGame # NoGame
        /\ IsResolution(moves[k]) /\ getTagValue(moves[k], "resolution") = "forfeit"
        /\ ByResolver(moves[k]))
       => /\ currentGame.status = "completed"
          /\ currentGame.result = (IF moves[k].pubkey = WhiteKey THEN "1-0" ELSE "0-1")
  /\ \A k \in DOMAIN moves : IsResolution(moves[k]) => ByResolver(moves[k])

\* C13: a session that has been forked for longer than the grace period
\* with no resolution observed is marked abandoned.
C13_ForkAbandonedAfterGrace ==
  (/\ currentGame # NoGame
   /\ Forked
   /\ ~\E k \in DOMAIN moves : IsResolution(moves[k])
   /\ clock > GracePeriod)
  => currentGame.status = "abandoned"

----------------------------------------------------------------------------
(* Offers.  Both players' services publish offers; the hook useGameOffers  *)
(* and the store run on white's client (peer p1).  Time is in seconds.     *)

\* offers on the relays
MaxOffers == 2

\* offers the store creates
MaxMyOffers == 2

\* acceptances of offers that are published
MaxOfferAccepts == 1

MsPerSecond  == 1000    \* eventToGameOffer: parseInt(expires) * 1000
OFFER_TTL    == 300     \* createGameOfferEvent: expires 5 minutes after creation
SINCE_WINDOW == 600     \* the filters' `since`: the last 10 minutes

\* the instants at which something happens
Times == {0, OFFER_TTL, OFFER_TTL + 1}

SkillLevels == {"total-beginner", "beginner", "intermediate", "advanced", "master"}

\* the time controls the matchmaking panel offers
TimeControls ==
  {[initial |-> 180, increment |-> 2], [initial |-> 300, increment |-> 0],
   [initial |-> 600, increment |-> 0], [initial |-> 900, increment |-> 15],
   [initial |-> 1800, increment |-> 0]}

\* the wire format of a time control: `{initial_seconds}+{increment_seconds}`
FormatTimeControl(tc) == ToString(tc.initial) \o "+" \o ToString(tc.increment)

\* the offers a caller asks for: one inside the option sets, one with a skill
\* tier outside them, one with a time control outside them
OfferInputs ==
  {[variant |-> "classical", skillLevel |-> "intermediate", timeControl |-> [initial |-> 600, increment |-> 0]],
   [variant |-> "classical", skillLevel |-> "grandmaster", timeControl |-> [initial |-> 600, increment |-> 0]],
   [variant |-> "classical", skillLevel |-> "intermediate", timeControl |-> [initial |-> 7, increment |-> 7]]}

ValidOffer(offer) ==
  offer.skillLevel \in SkillLevels /\ offer.timeControl \in TimeControls

\* the argument of GameService.publishGameOffer for an offer of the panel
WireOffer(offer) ==
  [variant |-> offer.variant, skillLevel |-> offer.skillLevel,
   timeControl |-> FormatTimeControl(offer.timeControl)]

\* createGameOfferEvent.  The clock is read twice: `now` for the expires
\* tag, and `stamped`, in createEventTemplate, for created_at.
createGameOfferEvent(privateKey, offer, now, stamped, id) ==
  signEvent(createEventTemplate(GAME_OFFER, JSONstringify(offer),
              << <<"t", "chess-offer">>,
                 <<"skill", offer.skillLevel>>,
                 <<"variant", offer.variant>>,
                 <<"time", offer.timeControl>>,
                 <<"expires", toString(now + OFFER_TTL)>> >>, stamped),
            privateKey, id)

\* the offer event player p's service builds at time now, both clock
\* readings falling in the same second
OfferEventOf(p, offer, now) ==
  createGameOfferEvent(SecretOf(p), WireOffer(offer), now, now,
    "offer-" \o p \o "-" \o ToString(now) \o "-" \o offer.skillLevel
      \o "-" \o FormatTimeControl(offer.timeControl))

\* how a call ended, and how many times it called pool.publish
Outcome(op, arg, owned, result, attempts) ==
  [op |-> op, arg |-> arg, owned |-> owned, result |-> result, attempts |-> attempts]

\* time passes
AdvanceTo(t) ==
  /\ t \in Times /\ t > offNow
  /\ offNow' = t
  /\ offHandedNow' = {}
  /\ UNCHANGED <<offerRelay, offMounted, offQuery, offers, myOffers, uuidCount, offOutcome>>

\* GameService.publishGameOffer: throws before initialize; otherwise the
\* event is built and sent, and publish resolves or rejects
PublishGameOffer(p, offer) ==
  /\ offHandedNow' = {}
  /\ UNCHANGED <<offNow, offMounted, offQuery, offers, myOffers, uuidCount>>
  /\ IF svcKey[p] = NoKey
       THEN /\ offOutcome' = Outcome("publishGameOffer", p, FALSE, "threw", 0)
            /\ UNCHANGED offerRelay
       ELSE \/ /\ OfferEventOf(p, offer, offNow) \notin offerRelay
               /\ Cardinality(offerRelay) < MaxOffers
               /\ offerRelay' = offerRelay \cup {OfferEventOf(p, offer, offNow)}
               /\ offOutcome' = Outcome("publishGameOffer", p, TRUE, "resolved", 1)
            \/ /\ offOutcome' = Outcome("publishGameOffer", p, TRUE, "rejected", 1)
               /\ UNCHANGED offerRelay

\* the relay's side of the offer filter: kind, #t and since
MatchesOfferFilter(e, since) ==
  /\ e.kind = GAME_OFFER
  /\ HasTag(e, "t") /\ getTagValue(e, "t") = "chess-offer"
  /\ e.created_at >= since

\* getAvailableOffers: the filter callback on the query's result
NotExpired(e) ==
  IF ~HasTag(e, "expires") THEN TRUE
  ELSE parseInt(getTagValue(e, "expires")) > offNow

\* subscribeToGameOffers: the callback's expiry check returns early
ExpiredOnArrival(e) ==
  HasTag(e, "expires") /\ parseInt(getTagValue(e, "expires")) < offNow

\* the effect of useGameOffers runs once the service is there
OfferMount ==
  /\ ~offMounted
  /\ svcKey[WhiteKey] # NoKey
  /\ offMounted' = TRUE
  /\ offQuery' = "pending"
  /\ offHandedNow' = {}
  /\ UNCHANGED <<offNow, offerRelay, offers, myOffers, uuidCount, offOutcome>>

\* getAvailableOffers(...).then(setOffers): the relays answer in some order
GetAvailableOffers ==
  /\ offQuery = "pending"
  /\ \E order \in Orders({e \in offerRelay : MatchesOfferFilter(e, offNow - SINCE_WINDOW)}) :
       /\ offers' = SelectSeq(order, NotExpired)
       /\ offHandedNow' = {order[i] : i \in {j \in DOMAIN order : NotExpired(order[j])}}
  /\ offQuery' = "done"
  /\ UNCHANGED <<offNow, offerRelay, offMounted, myOffers, uuidCount, offOutcome>>

\* the query fails: querySync returns [] and setOffers([]) runs
OfferQueryFail ==
  /\ offQuery = "pending"
  /\ offers' = SelectSeq(<< >>, NotExpired)
  /\ offHandedNow' = {}
  /\ offQuery' = "done"
  /\ UNCHANGED <<offNow, offerRelay, offMounted, myOffers, uuidCount, offOutcome>>

\* the subscription hands an offer to the callback of subscribeToGameOffers
OfferSubDeliver(e) ==
  /\ offMounted
  /\ e \in offerRelay
  /\ MatchesOfferFilter(e, offNow - SINCE_WINDOW)
  /\ IF ExpiredOnArrival(e)
       THEN offHandedNow' = {} /\ UNCHANGED offers
       ELSE /\ offHandedNow' = {e}
            /\ offers' = IF InList(offers, e.id) THEN offers ELSE Append(offers, e)
  /\ UNCHANGED <<offNow, offerRelay, offMounted, offQuery, myOffers, uuidCount, offOutcome>>

\* an offer of a third party whose content is not JSON
MalformedOffer ==
  signEvent(createEventTemplate(GAME_OFFER, <<"text", "{oops">>,
              << <<"t", "chess-offer">>,
                 <<"skill", "intermediate">>,
                 <<"variant", "classical">>,
                 <<"time", "600+0">>,
                 <<"expires", toString(OFFER_TTL)>> >>, 0),
            "skT", "offer-malformed")

\* the third party's event reaches the relays
PublishForeignOffer ==
  /\ MalformedOffer \notin offerRelay
  /\ Cardinality(offerRelay) < MaxOffers
  /\ offerRelay' = offerRelay \cup {MalformedOffer}
  /\ offHandedNow' = {}
  /\ UNCHANGED <<offNow, offMounted, offQuery, offers, myOffers, uuidCount, offOutcome>>

\* eventToGameOffer on a listed offer: JSON.parse(event.content) throws on
\* text that is not JSON, otherwise the GameOffer is returned
EventToGameOffer(e) ==
  /\ InList(offers, e.id)
  /\ offOutcome' = Outcome("eventToGameOffer", e.id, e.pubkey = WhiteKey,
                           IF JSONparses(e.content) THEN "returned" ELSE "threw", 0)
  /\ offHandedNow' = {}
  /\ UNCHANGED <<offNow, offerRelay, offMounted, offQuery, offers, myOffers, uuidCount>>

\* black's service accepts an offer seen on the relays
AcceptOffer(o) ==
  /\ o \in offerRelay
  /\ svcKey[BlackKey] # NoKey
  /\ Cardinality(accPublished) < MaxOfferAccepts
  /\ accPublished' = accPublished \cup
       {createGameAcceptanceEvent("skB", o.id, o.pubkey, "gB", offNow, "accept-" \o o.id)}
  /\ UNCHANGED <<handed, accSub, peerGame>>

\* an acceptance the subscription of peer p lets through reaches onAcceptance
ObserveAcceptance(p) ==
  \E a \in accPublished : DeliverAcceptance(p, a)

NextOffers ==
  \/ \E p \in Players : Initialize(p) /\ UNCHANGED <<feedVars, storeVars, acceptVars, forkVars, offerVars, stampVars, pubVars, tripVars, initVars>>
  \/ \E t \in Times : AdvanceTo(t) /\ UNCHANGED <<feedVars, archiveVars, storeVars, acceptVars, forkVars, stampVars, pubVars, tripVars, initVars>>
  \/ \E p \in Players, o \in {x \in OfferInputs : ValidOffer(x)} : PublishGameOffer(p, o) /\ UNCHANGED <<feedVars, archiveVars, storeVars, acceptVars, forkVars, stampVars, pubVars, tripVars, initVars>>
  \/ OfferMount /\ UNCHANGED <<feedVars, archiveVars, storeVars, acceptVars, forkVars, stampVars, pubVars, tripVars, initVars>>
  \/ GetAvailableOffers /\ UNCHANGED <<feedVars, archiveVars, storeVars, acceptVars, forkVars, stampVars, pubVars, tripVars, initVars>>
  \/ OfferQueryFail /\ UNCHANGED <<feedVars, archiveVars, storeVars, acceptVars, forkVars, stampVars, pubVars, tripVars, initVars>>
  \/ \E e \in offerRelay : OfferSubDeliver(e) /\ UNCHANGED <<feedVars, archiveVars, storeVars, acceptVars, forkVars, stampVars, pubVars, tripVars, initVars>>
  \/ PublishForeignOffer /\ UNCHANGED <<feedVars, archiveVars, storeVars, acceptVars, forkVars, stampVars, pubVars, tripVars, initVars>>
  \/ \E e \in offerRelay : EventToGameOffer(e) /\ UNCHANGED <<feedVars, archiveVars, storeVars, acceptVars, forkVars, stampVars, pubVars, tripVars, initVars>>
  \/ \E o \in offerRelay : AcceptOffer(o) /\ UNCHANGED <<feedVars, archiveVars, storeVars, forkVars, offerVars, stampVars, pubVars, tripVars, initVars>>
  \/ SubscribeToGameAcceptances("p1") /\ UNCHANGED <<feedVars, archiveVars, storeVars, forkVars, offerVars, stampVars, pubVars, tripVars, initVars>>
  \/ ObserveAcceptance("p1") /\ UNCHANGED <<feedVars, archiveVars, storeVars, forkVars, offerVars, stampVars, pubVars, tripVars, initVars>>

SpecOffers == Init /\ [][NextOffers]_vars

\* C14: every offer handed to the caller, by the query or by the
\* subscription, expires strictly after the moment it is handed over.
C14_OnlyUnexpiredListed ==
  \A e \in offHandedNow :
    HasTag(e, "expires") => parseInt(getTagValue(e, "expires")) > offNow

\* C15: no offer for which the peer has observed an acceptance is in the
\* list of open offers.
C15_AcceptedNotListed ==
  \A i \in DOMAIN handed["p1"] :
    ~InList(offers, getTagValue(handed["p1"][i], "e"))

----------------------------------------------------------------------------
(* The store's own offers (white's client).  useNostr.initialize sets the  *)
(* store's keys and the service's keys in one synchronous run, so the      *)
(* store has keys exactly when white's service has its private key.        *)

\* the id crypto.randomUUID returns on its n-th call
Uuid(n) == "uuid-" \o ToString(n)

\* an offer id that is on nobody's list: another player's offer
ForeignOfferId == "uuid-of-black"

\* store.createGameOffer: returns without keys, otherwise appends the offer
CreateGameOffer(offer) ==
  /\ offHandedNow' = {}
  /\ offOutcome' = Outcome("createGameOffer", "", svcKey[WhiteKey] # NoKey, "returned", 0)
  /\ UNCHANGED <<offNow, offerRelay, offMounted, offQuery, offers>>
  /\ IF svcKey[WhiteKey] = NoKey
       THEN UNCHANGED <<myOffers, uuidCount>>
       ELSE /\ uuidCount < MaxMyOffers
            /\ uuidCount' = uuidCount + 1
            /\ myOffers' = Append(myOffers,
                 [id          |-> Uuid(uuidCount + 1),
                  pubkey      |-> WhiteKey,
                  eventId     |-> "",
                  variant     |-> offer.variant,
                  skillLevel  |-> offer.skillLevel,
                  timeControl |-> offer.timeControl,
                  expires     |-> offNow * 1000 + 5 * 60 * 1000])

\* store.cancelGameOffer: drops the offer with that id from myOffers
CancelGameOffer(offerId) ==
  /\ myOffers' = SelectSeq(myOffers, LAMBDA o : o.id # offerId)
  /\ offOutcome' = Outcome("cancelGameOffer", offerId, InList(myOffers, offerId), "returned", 0)
  /\ offHandedNow' = {}
  /\ UNCHANGED <<offNow, offerRelay, offMounted, offQuery, offers, uuidCount>>

NextMyOffers ==
  \/ \E p \in Players : Initialize(p) /\ UNCHANGED <<feedVars, storeVars, acceptVars, forkVars, offerVars, stampVars, pubVars, tripVars, initVars>>
  \/ \E t \in Times : AdvanceTo(t) /\ UNCHANGED <<feedVars, archiveVars, storeVars, acceptVars, forkVars, stampVars, pubVars, tripVars, initVars>>
  \/ \E p \in Players, o \in OfferInputs : PublishGameOffer(p, o) /\ UNCHANGED <<feedVars, archiveVars, storeVars, acceptVars, forkVars, stampVars, pubVars, tripVars, initVars>>
  \/ \E o \in OfferInputs : CreateGameOffer(o) /\ UNCHANGED <<feedVars, archiveVars, storeVars, acceptVars, forkVars, stampVars, pubVars, tripVars, initVars>>
  \/ \E n \in 1..MaxMyOffers : CancelGameOffer(Uuid(n)) /\ UNCHANGED <<feedVars, archiveVars, storeVars, acceptVars, forkVars, stampVars, pubVars, tripVars, initVars>>
  \/ CancelGameOffer(ForeignOfferId) /\ UNCHANGED <<feedVars, archiveVars, storeVars, acceptVars, forkVars, stampVars, pubVars, tripVars, initVars>>

SpecMyOffers == Init /\ [][NextMyOffers]_vars

\* the option sets as an offer event states them
ValidOfferEvent(e) ==
  /\ getTagValue(e, "skill") \in SkillLevels
  /\ getTagValue(e, "time") \in {FormatTimeControl(tc) : tc \in TimeControls}

\* an explicit cancellation of offer `offerId` is on the relays
CancellationPublished(offerId) ==
  \E e \in offerRelay :
    /\ HasTag(e, "t") /\ getTagValue(e, "t") = "chess-cancel"
    /\ HasTag(e, "e") /\ getTagValue(e, "e") = offerId

\* C16: no offer with a skill tier or time control outside the option sets
\* is ever published or stored locally.
C16_InvalidOfferRejected ==
  /\ \A e \in offerRelay : ValidOfferEvent(e)
  /\ \A i \in DOMAIN myOffers : ValidOffer(myOffers[i])

\* C17: a cancel by the issuer has published an explicit cancellation, and a
\* cancel of somebody else's offer has failed with NotOwner.
C17_OnlyIssuerCancels ==
  offOutcome.op = "cancelGameOffer"
  => IF offOutcome.owned
       THEN CancellationPublished(offOutcome.arg)
       ELSE offOutcome.result = "NotOwner"

----------------------------------------------------------------------------
(* Move indexes (SpecStore) *)

\* the event publishMove builds from the k-th record of the store's game
EventOfRecord(game, k) ==
  createMoveEvent(IF game.moves[k].color = "white" THEN "skW" ELSE "skB",
                  game.id, game.moves[k].moveNumber, game.moves[k].san,
                  game.moves[k].fen, game.white, game.black,
                  IF k = 1 THEN NoEvent ELSE ChainId(k - 1), k, ChainId(k))

EventOfPly(game, k) ==
  createMoveEvent(IF game.moves[k].color = "white" THEN "skW" ELSE "skB",
                  game.id, k, game.moves[k].san, game.moves[k].fen,
                  game.white, game.black,
                  IF k = 1 THEN NoEvent ELSE ChainId(k - 1), k, ChainId(k))

----------------------------------------------------------------------------
(* Failures (SpecOffers) *)

\* C19: no operation ends in an error thrown to its caller: not a publish
\* on an uninitialised service, not a publish the relays reject, not the
\* conversion of an offer whose content is malformed.
C19_NoThrowReachesCaller ==
  offOutcome.result \notin {"threw", "rejected"}

\* C20: a publish that is reported to its caller as failed was attempted
\* more than once.
C20_FailureOnlyAfterRetries ==
  offOutcome.result = "rejected" => offOutcome.attempts > 1

----------------------------------------------------------------------------
(* Cancelling and reopening the move subscription (SpecResub): the move    *)
(* feed of Spec with the effect's cleanup and its next run.                *)

\* the cleanup of the effect: gameService.unsubscribe(subId)
Unsubscribe ==
  /\ mounted
  /\ mounted' = FALSE
  /\ lastOp' = "unsubscribe"
  /\ UNCHANGED <<published, relay, query, queryResult, moves, seen, subs>>

\* the effect runs again once the earlier query has settled
Resubscribe == query \in {"idle", "done"} /\ Mount

NextResub ==
  \/ \E e \in ChainSet : PublishMove(e) /\ UNCHANGED <<archiveVars, storeVars, acceptVars, forkVars, offerVars, stampVars, pubVars, tripVars, initVars>>
  \/ Resubscribe /\ UNCHANGED <<archiveVars, storeVars, acceptVars, forkVars, offerVars, stampVars, pubVars, tripVars, initVars>>
  \/ Unsubscribe /\ UNCHANGED <<archiveVars, storeVars, acceptVars, forkVars, offerVars, stampVars, pubVars, tripVars, initVars>>
  \/ QueryServe /\ UNCHANGED <<archiveVars, storeVars, acceptVars, forkVars, offerVars, stampVars, pubVars, tripVars, initVars>>
  \/ QueryFail /\ UNCHANGED <<archiveVars, storeVars, acceptVars, forkVars, offerVars, stampVars, pubVars, tripVars, initVars>>
  \/ QueryResolve /\ UNCHANGED <<archiveVars, storeVars, acceptVars, forkVars, offerVars, stampVars, pubVars, tripVars, initVars>>
  \/ \E e \in ChainSet : SubDeliver(e) /\ UNCHANGED <<archiveVars, storeVars, acceptVars, forkVars, offerVars, stampVars, pubVars, tripVars, initVars>>

SpecResub == Init /\ [][NextResub]_vars

\* C21: after the subscription was cancelled and opened again, once the
\* query of the new subscription has been answered by the relays and has
\* completed, every move published so far is in the list.
C21_ResubscribeRecovers ==
  (/\ subs >= 2 /\ lastOp = "resolve"
   /\ IdsOf(queryResult) = {x.id : x \in relay})
  => {x.id : x \in published} \subseteq IdsOf(moves)

----------------------------------------------------------------------------
(* Timestamps.  Two runs of useGameMoves ingest the same messages by the   *)
(* same steps; in the second run every message carries another created_at. *)

Stamps == 0..MaxStamp

Restamp(e, t) == [e EXCEPT !.created_at = t]
Restamped(e)  == Restamp(e, stampOf[e])

\* the subscription callback hands over one message
IngestDelivered(e) ==
  /\ runA' = OnMove(runA, e)
  /\ runB' = OnMove(runB, Restamped(e))
  /\ UNCHANGED stampOf

\* getGameMoves(gameId).then(setMoves): the relays list some of the messages
\* in some order, the service sorts them and the hook stores the result
IngestQueried(order) ==
  /\ runA' = SortByMove(order)
  /\ runB' = SortByMove([i \in DOMAIN order |-> Restamped(order[i])])
  /\ UNCHANGED stampOf

InitStamp ==
  /\ InitSession
  /\ stampOf \in [StampUniverse -> Stamps]
  /\ clientRelays = Relays

NextStamp ==
  \/ \E e \in StampUniverse : IngestDelivered(e) /\ UNCHANGED <<feedVars, archiveVars, storeVars, acceptVars, forkVars, offerVars, pubVars, tripVars, initVars>>
  \/ \E S \in SUBSET StampUniverse : \E order \in Orders(S) : IngestQueried(order) /\ UNCHANGED <<feedVars, archiveVars, storeVars, acceptVars, forkVars, offerVars, pubVars, tripVars, initVars>>

SpecStamp == InitStamp /\ [][NextStamp]_vars

----------------------------------------------------------------------------
(* Ending a game *)

TerminalResults == {"1-0", "0-1", "1/2-1/2"}

\* C23: every record of the game history belongs to a game that had reached
\* a terminal result when endGame removed it as the current game.
C23_ArchivedOnlyCompleted ==
  \A i \in DOMAIN gameHistory : gameHistory[i].result \in TerminalResults

----------------------------------------------------------------------------
(* Accepting a local move.  The store runs on white's client: the player   *)
(* who calls makeMove plays white.                                         *)

\* playerColor of the board that calls makeMove
LocalColor == "white"

\* the move makeMove accepted last
LastRecord == currentGame.moves[Len(currentGame.moves)]

\* C24: a move makeMove accepted was legal for the engine, was played when
\* it was the local player's turn and in a game of status active, and no
\* move was accepted after the game had a result.
C24_MoveNeedsTurnAndActive ==
  (currentGame # NoGame /\ lastMove = "true")
  => /\ currentGame.status = "active"
     /\ \A k \in 1..Len(currentGame.chess) :
          IsLegal(SubSeq(currentGame.chess, 1, k - 1), currentGame.chess[k])
     /\ \A k \in 0..(Len(currentGame.chess) - 1) :
          ~isGameOver(SubSeq(currentGame.chess, 1, k))
     /\ LastRecord.color = LocalColor

----------------------------------------------------------------------------
(* Refusing a move *)

\* C25: makeMove answers an illegal move with false, never with an
\* exception: no move the engine refuses is ever played or recorded, and a
\* call that returned false left the game and the history as they were.
C25_IllegalChangesNothing ==
  /\ [](lastMove \in {"none", "true", "false"})
  /\ [](currentGame # NoGame =>
          \A k \in 1..Len(currentGame.chess) :
            IsLegal(SubSeq(currentGame.chess, 1, k - 1), currentGame.chess[k]))
  /\ [][(lastMove' = "false" /\ gameHistory' = gameHistory)
          => currentGame' = currentGame]_vars

\* a move was refused in a running game that already has a move
C25_Witness ==
  /\ currentGame # NoGame
  /\ lastMove = "false"
  /\ Len(currentGame.moves) >= 1
  /\ ~isGameOver(currentGame.chess)

----------------------------------------------------------------------------
(* The move list and the engine *)

\* C26: whatever calls of makeMove succeeded or failed, the move list has
\* one entry per move of the engine's history, in the same order, and
\* currentFen is the engine's position and the fen of the last entry.
C26_MoveListMirrorsEngine ==
  currentGame # NoGame
  => /\ Len(currentGame.moves) = Len(currentGame.chess)
     /\ \A k \in DOMAIN currentGame.moves :
          /\ currentGame.moves[k].san = currentGame.chess[k]
          /\ currentGame.moves[k].fen = SubSeq(currentGame.chess, 1, k)
     /\ currentGame.currentFen = currentGame.chess
     /\ Len(currentGame.moves) > 0
          => currentGame.moves[Len(currentGame.moves)].fen = currentGame.currentFen

\* two moves were accepted and the call after them was refused
C26_Witness ==
  /\ currentGame # NoGame
  /\ Len(currentGame.moves) >= 2
  /\ lastMove = "false"

----------------------------------------------------------------------------
(* NostrClient.publish.  pool.publish hands back one promise per relay;    *)
(* a relay's promise resolves when the relay accepts the event and rejects *)
(* when it refuses it or cannot be reached.                                *)

Answer(r, ok) == [relay |-> r, ok |-> ok]
HasAnswered(r)    == \E i \in DOMAIN answered : answered[i].relay = r

\* publish(event): connects if needed, sends the event to every relay and
\* awaits Promise.race of the relays' promises
Publish ==
  /\ pubPromise # "pending"
  /\ pubCalls < MaxPublishes
  /\ pubCalls' = pubCalls + 1
  /\ connected' = TRUE
  /\ answered' = << >>
  /\ pubPromise' = "pending"
  /\ clientOp' = [op |-> "publish", id |-> ""]
  /\ UNCHANGED <<clientRelays, subscriptions, closeCalls, subCount, reached, relayStatus, isConnected>>

\* one relay's promise settles; Promise.race settles with the first promise
\* that settles, and later answers do not change it
RelayAnswers(r, ok) ==
  /\ pubPromise # "none"
  /\ ~HasAnswered(r)
  /\ answered' = Append(answered, Answer(r, ok))
  /\ pubPromise' = IF pubPromise = "pending"
                     THEN (IF ok THEN "resolved" ELSE "rejected")
                     ELSE pubPromise
  /\ UNCHANGED <<connected, pubCalls, clientRelays, subscriptions, closeCalls, subCount, clientOp, reached, relayStatus, isConnected>>

NextPublish ==
  \/ Publish /\ UNCHANGED <<feedVars, archiveVars, storeVars, acceptVars, forkVars, offerVars, stampVars, tripVars, initVars>>
  \/ \E r \in clientRelays, ok \in BOOLEAN : RelayAnswers(r, ok) /\ UNCHANGED <<feedVars, archiveVars, storeVars, acceptVars, forkVars, offerVars, stampVars, tripVars, initVars>>

SpecPublish == Init /\ [][NextPublish]_vars

\* C27: publish resolves whenever a relay has accepted the event, in
\* whatever order the relays answered, and has rejected only if no relay
\* accepted it.
C27_ResolvesIfAnyRelayAccepts ==
  /\ (\E i \in DOMAIN answered : answered[i].ok) => pubPromise = "resolved"
  /\ pubPromise = "rejected" => \A i \in DOMAIN answered : ~answered[i].ok

----------------------------------------------------------------------------
(* The offer round trip: createGameOfferEvent, then eventToGameOffer *)

\* the offers given to createGameOfferEvent: variant, skill level, time
\* control in wire format, and possibly a message
TripOffers ==
  [variant : {"classical", "blitz"}, skillLevel : {"beginner", "intermediate", "grandmaster"}, timeControl : {"300+0", "900+15"}]
  \cup
  [variant : {"classical", "blitz"}, skillLevel : {"beginner", "intermediate", "grandmaster"}, timeControl : {"300+0", "900+15"}, message : {"hi"}]

\* getTagValue(event, name) || fallback
TagOr(event, tagName, fallback) ==
  IF HasTag(event, tagName) /\ getTagValue(event, tagName) # ""
    THEN getTagValue(event, tagName)
    ELSE fallback

\* content.message of the parsed content
MessageOf(content) ==
  IF "message" \in DOMAIN content THEN content.message ELSE "undefined"

\* eventToGameOffer with the expiry left in seconds
eventToGameOfferSeconds(event, nowMs) ==
  [id          |-> event.id,
   eventId     |-> event.id,
   pubkey      |-> event.pubkey,
   variant     |-> TagOr(event, "variant", "classical"),
   skillLevel  |-> TagOr(event, "skill", "intermediate"),
   timeControl |-> TagOr(event, "time", "600+0"),
   message     |-> MessageOf(JSONparse(event.content)),
   expires     |-> IF HasTag(event, "expires")
                     THEN parseInt(getTagValue(event, "expires"))
                     ELSE nowMs + OFFER_TTL]

\* eventToGameOffer; nowMs is Date.now()
eventToGameOffer(event, nowMs) ==
  [id          |-> event.id,
   eventId     |-> event.id,
   pubkey      |-> event.pubkey,
   variant     |-> TagOr(event, "variant", "classical"),
   skillLevel  |-> TagOr(event, "skill", "intermediate"),
   timeControl |-> TagOr(event, "time", "600+0"),
   message     |-> MessageOf(JSONparse(event.content)),
   expires     |-> IF HasTag(event, "expires")
                     THEN parseInt(getTagValue(event, "expires")) * MsPerSecond
                     ELSE nowMs + OFFER_TTL * MsPerSecond]

\* createGameOfferEvent(privateKey, o): the clock reads now for the expires
\* tag and, in the same second or the next, stamped for created_at
CreateOfferEvent(o, now, stamped) ==
  /\ stamped \in {now, now + 1}
  /\ tripOffer' = o
  /\ tripNow' = now
  /\ tripEvent' = createGameOfferEvent("skW", o, now, stamped, "offer-trip")
  /\ tripDecoded' = Undefined

\* eventToGameOffer(event) on the event just built
ConvertOfferEvent ==
  /\ tripEvent # Undefined
  /\ tripDecoded = Undefined
  /\ tripDecoded' = eventToGameOffer(tripEvent, tripEvent.created_at * MsPerSecond)
  /\ UNCHANGED <<tripOffer, tripNow, tripEvent>>

NextTrip ==
  \/ \E o \in TripOffers, now \in Times, stamped \in Times : CreateOfferEvent(o, now, stamped) /\ UNCHANGED <<feedVars, archiveVars, storeVars, acceptVars, forkVars, offerVars, stampVars, pubVars, initVars>>
  \/ ConvertOfferEvent /\ UNCHANGED <<feedVars, archiveVars, storeVars, acceptVars, forkVars, offerVars, stampVars, pubVars, initVars>>

SpecTrip == Init /\ [][NextTrip]_vars

\* what the round trip keeps of the offer, and the agreement of the tags
\* with the JSON content
TripKeepsOffer ==
  /\ tripDecoded.skillLevel = tripOffer.skillLevel
  /\ tripDecoded.variant = tripOffer.variant
  /\ tripDecoded.timeControl = tripOffer.timeControl
  /\ tripDecoded.message = MessageOf(tripOffer)
  /\ getTagValue(tripEvent, "skill") = JSONparse(tripEvent.content).skillLevel
  /\ getTagValue(tripEvent, "variant") = JSONparse(tripEvent.content).variant
  /\ getTagValue(tripEvent, "time") = JSONparse(tripEvent.content).timeControl
  /\ tripDecoded.expires = MsPerSecond * parseInt(getTagValue(tripEvent, "expires"))

----------------------------------------------------------------------------
(* The service before and after initialize() *)

\* this.publicKey: null until initialize() has set the keys
PublicKeyOf(p) == IF svcKey[p] = NoKey THEN NoKey ELSE getPublicKey(svcKey[p])

\* subscribeToGameAcceptances: the filter is built from this.publicKey and
\* the subscription is opened
OpenAcceptanceSubscription(p) ==
  /\ accFilter[p] = NoFilter
  /\ accFilter' = [accFilter EXCEPT ![p] = PublicKeyOf(p)]

NextInit ==
  \/ \E p \in Players : Initialize(p) /\ UNCHANGED <<feedVars, storeVars, acceptVars, forkVars, offerVars, stampVars, pubVars, tripVars, initVars>>
  \/ \E p \in Players, o \in {x \in OfferInputs : ValidOffer(x)} : PublishGameOffer(p, o) /\ UNCHANGED <<feedVars, archiveVars, storeVars, acceptVars, forkVars, stampVars, pubVars, tripVars, initVars>>
  \/ \E p \in Players : ArchiveGame(p) /\ UNCHANGED <<feedVars, storeVars, acceptVars, forkVars, offerVars, stampVars, pubVars, tripVars, initVars>>
  \/ \E p \in Players : ArchivePublished(p) /\ UNCHANGED <<feedVars, storeVars, acceptVars, forkVars, offerVars, stampVars, pubVars, tripVars, initVars>>
  \/ \E p \in Players : ArchiveRejected(p) /\ UNCHANGED <<feedVars, storeVars, acceptVars, forkVars, offerVars, stampVars, pubVars, tripVars, initVars>>
  \/ \E p \in Players : OpenAcceptanceSubscription(p) /\ UNCHANGED <<feedVars, archiveVars, storeVars, acceptVars, forkVars, offerVars, stampVars, pubVars, tripVars>>

SpecInit == Init /\ [][NextInit]_vars

\* C29: a service that has not been initialized has published nothing, its
\* publishing calls ended with the 'Not initialized' error, and no
\* acceptance subscription is open with a missing public key in its filter.
C29_NothingBeforeInitialize ==
  \A p \in Players :
    /\ svcKey[p] = NoKey =>
         /\ \A e \in offerRelay : e.pubkey # p
         /\ \A i \in DOMAIN archives : archives[i].pubkey # p
         /\ archPc[p] \in {"idle", "threw"}
         /\ (offOutcome.op = "publishGameOffer" /\ offOutcome.arg = p)
              => offOutcome.result = "threw"
    /\ accFilter[p] # NoKey

----------------------------------------------------------------------------
(* The initial query and the subscription *)

\* C30: once the query of useGameMoves has completed, every move event the
\* query or the subscription callback has delivered is in the list; the
\* query result does not replace what the subscription had added.
C30_QueryKeepsDelivered ==
  query = "done" => seen \subseteq IdsOf(moves)

----------------------------------------------------------------------------
(* The shape of the move list *)

\* C31: the move list is sorted by non-decreasing move number and holds no
\* two events with the same id and no two events with the same move number.
C31_SortedAndDistinct ==
  /\ \A i \in 1..(Len(moves) - 1) : MoveNumberOf(moves[i]) <= MoveNumberOf(moves[i + 1])
  /\ \A i, j \in DOMAIN moves : i # j => moves[i].id # moves[j].id
  /\ \A i, j \in DOMAIN moves : i # j => MoveNumberOf(moves[i]) # MoveNumberOf(moves[j])

----------------------------------------------------------------------------
(* NostrClient.publish under every relay configuration.  A relay that does *)
(* not answer makes its promise reject when the pool's timeout runs out,   *)
(* so the promise of every relay the event was sent to can still settle.   *)

\* new NostrClient(config): any list of relays, the empty one included
InitConfig ==
  /\ InitSession
  /\ stampOf = [e \in StampUniverse |-> e.created_at]
  /\ clientRelays \in SUBSET Relays

SpecConfig == InitConfig /\ [][NextPublish]_vars

\* C32: a call of publish that has neither resolved nor rejected is waiting
\* for a relay's promise that can still settle, so that it settles in the
\* end; this for every relay configuration, the empty list included.
C32_PublishCanSettle ==
  pubPromise = "pending" => \E r \in clientRelays : ~HasAnswered(r)

----------------------------------------------------------------------------
(* The result of a game *)

\* getGameResult(game), h being the engine's history
getGameResult(h) ==
  IF ~isGameOver(h) THEN "*"
  ELSE IF isCheckmate(h) THEN (IF turn(h) = "w" THEN "0-1" ELSE "1-0")
  ELSE IF isDraw(h) \/ isStalemate(h) \/ isThreefoldRepetition(h) \/ isInsufficientMaterial(h)
    THEN "1/2-1/2"
  ELSE "*"

\* result || '*'
ResultOrStar(result) == IF result = "undefined" THEN "*" ELSE result

\* C33: the result makeMove recorded for the position after the last move
\* is getGameResult of that position: the mover's win on checkmate, a
\* draw on every other game-over position, no result otherwise.
C33_ResultIsGameResult ==
  (currentGame # NoGame /\ Len(currentGame.chess) > 0)
  => /\ ResultOrStar(currentGame.result) = getGameResult(currentGame.chess)
     /\ isCheckmate(currentGame.chess)
          => currentGame.result = (IF LastRecord.color = "white" THEN "1-0" ELSE "0-1")
     /\ (isGameOver(currentGame.chess) /\ ~isCheckmate(currentGame.chess))
          => currentGame.result = "1/2-1/2"
     /\ ~isGameOver(currentGame.chess) => currentGame.result = "undefined"

\* black has mated
C33_Witness ==
  /\ currentGame # NoGame
  /\ isCheckmate(currentGame.chess)
  /\ Len(currentGame.chess) % 2 = 0
  /\ currentGame.result = "0-1"

----------------------------------------------------------------------------
(* The effect of endGame *)

\* C34: endGame with a current game prepends one record of that game to
\* the history (with result '*' when the game has none), sets currentGame
\* and selectedMove to null and changes nothing else; nothing else adds to
\* the history; and the history never holds two records of one session.
C34_EndGameOnce ==
  /\ [][currentGame' = NoGame /\ currentGame # NoGame
          => /\ gameHistory' = <<GameRecordOf(currentGame)>> \o gameHistory
             /\ gameHistory'[1].result = ResultOrStar(currentGame.result)
             /\ selectedMove' = NoSelection
             /\ lastMove' = lastMove]_vars
  /\ [][gameHistory' # gameHistory => currentGame # NoGame /\ currentGame' = NoGame]_vars
  /\ [](\A i, j \in DOMAIN gameHistory : i # j => gameHistory[i].id # gameHistory[j].id)

----------------------------------------------------------------------------
(* The selected move *)

\* C35: selectedMove is null or the index of a move of the current game;
\* it is null when there is no current game and right after startGame.
C35_SelectionInRange ==
  \/ selectedMove = NoSelection
  \/ /\ currentGame # NoGame
     /\ selectedMove[1] >= 0
     /\ selectedMove[1] < Len(currentGame.moves)

----------------------------------------------------------------------------
(* NostrClient: connect, subscribe, unsubscribe, disconnect *)

\* connect(): nothing when connected; otherwise connected is set at once,
\* the test query reaches some of the relays, and its failure is caught
ClientConnect ==
  /\ ~connected
  /\ connected' = TRUE
  /\ \E rs \in SUBSET clientRelays : reached' = rs
  /\ clientOp' = [op |-> "connect", id |-> ""]
  /\ UNCHANGED <<pubPromise, answered, pubCalls, clientRelays, subscriptions, closeCalls, subCount, relayStatus, isConnected>>

\* subscribe(filters, onEvent): connects if needed, opens the subscription
\* and stores its close function under a new id
ClientSubscribe ==
  /\ subCount < MaxSubs
  /\ subCount' = subCount + 1
  /\ connected' = TRUE
  /\ IF connected THEN UNCHANGED reached ELSE \E rs \in SUBSET clientRelays : reached' = rs
  /\ subscriptions' = subscriptions \cup {SubId(subCount + 1)}
  /\ clientOp' = [op |-> "subscribe", id |-> SubId(subCount + 1)]
  /\ UNCHANGED <<pubPromise, answered, pubCalls, clientRelays, closeCalls, relayStatus, isConnected>>

\* unsubscribe that runs the close function and leaves the id in the table
ClientUnsubscribeKeep(subscriptionId) ==
  /\ clientOp' = [op |-> "unsubscribe", id |-> subscriptionId]
  /\ IF subscriptionId \in subscriptions
       THEN /\ closeCalls' = [closeCalls EXCEPT ![subscriptionId] = @ + 1]
            /\ UNCHANGED subscriptions
       ELSE UNCHANGED <<subscriptions, closeCalls>>
  /\ UNCHANGED <<connected, pubPromise, answered, pubCalls, clientRelays, subCount, reached, relayStatus, isConnected>>

\* unsubscribe(subscriptionId): an id of the table has its close function
\* run and is removed; any other id changes nothing
ClientUnsubscribe(subscriptionId) ==
  /\ clientOp' = [op |-> "unsubscribe", id |-> subscriptionId]
  /\ IF subscriptionId \in subscriptions
       THEN /\ closeCalls' = [closeCalls EXCEPT ![subscriptionId] = @ + 1]
            /\ subscriptions' = subscriptions \ {subscriptionId}
       ELSE UNCHANGED <<subscriptions, closeCalls>>
  /\ UNCHANGED <<connected, pubPromise, answered, pubCalls, clientRelays, subCount, reached, relayStatus, isConnected>>

\* disconnect(): every close function of the table runs, the table is
\* cleared, the pool is closed
ClientDisconnect ==
  /\ closeCalls' = [id \in SubIds |-> IF id \in subscriptions THEN closeCalls[id] + 1 ELSE closeCalls[id]]
  /\ subscriptions' = {}
  /\ connected' = FALSE
  /\ reached' = {}
  /\ clientOp' = [op |-> "disconnect", id |-> ""]
  /\ UNCHANGED <<pubPromise, answered, pubCalls, clientRelays, subCount, relayStatus, isConnected>>

\* getRelayStatus(): every relay of the list, with the client's flag
getRelayStatus(isOn) == [r \in clientRelays |-> isOn]

\* store.updateRelayStatus(relayStatus)
UpdateRelayStatus(status) ==
  /\ relayStatus' = status
  /\ isConnected' = (\E r \in DOMAIN status : status[r])
  /\ clientOp' = [op |-> "updateRelayStatus", id |-> ""]
  /\ UNCHANGED <<connected, pubPromise, answered, pubCalls, clientRelays, subscriptions, closeCalls, subCount, reached>>

\* store.setConnected(isConnected)
SetConnected(value) ==
  /\ isConnected' = value
  /\ clientOp' = [op |-> "setConnected", id |-> ""]
  /\ UNCHANGED <<connected, pubPromise, answered, pubCalls, clientRelays, subscriptions, closeCalls, subCount, reached, relayStatus>>

\* useNostr.initialize: the service connects, then setConnected(true), then
\* updateRelayStatus(getRelayStatus())
UseNostrInitialize ==
  /\ connected' = TRUE
  /\ IF connected THEN UNCHANGED reached ELSE \E rs \in SUBSET clientRelays : reached' = rs
  /\ relayStatus' = getRelayStatus(TRUE)
  /\ isConnected' = (\E r \in DOMAIN relayStatus' : relayStatus'[r])
  /\ clientOp' = [op |-> "initialize", id |-> ""]
  /\ UNCHANGED <<pubPromise, answered, pubCalls, clientRelays, subscriptions, closeCalls, subCount>>

NextClient ==
  \/ ClientConnect /\ UNCHANGED <<feedVars, archiveVars, storeVars, acceptVars, forkVars, offerVars, stampVars, tripVars, initVars>>
  \/ ClientSubscribe /\ UNCHANGED <<feedVars, archiveVars, storeVars, acceptVars, forkVars, offerVars, stampVars, tripVars, initVars>>
  \/ \E id \in SubIds : ClientUnsubscribe(id) /\ UNCHANGED <<feedVars, archiveVars, storeVars, acceptVars, forkVars, offerVars, stampVars, tripVars, initVars>>
  \/ ClientDisconnect /\ UNCHANGED <<feedVars, archiveVars, storeVars, acceptVars, forkVars, offerVars, stampVars, tripVars, initVars>>
  \/ UseNostrInitialize /\ UNCHANGED <<feedVars, archiveVars, storeVars, acceptVars, forkVars, offerVars, stampVars, tripVars, initVars>>
  \/ UpdateRelayStatus(getRelayStatus(connected)) /\ UNCHANGED <<feedVars, archiveVars, storeVars, acceptVars, forkVars, offerVars, stampVars, tripVars, initVars>>
  \/ \E value \in BOOLEAN : SetConnected(value) /\ UNCHANGED <<feedVars, archiveVars, storeVars, acceptVars, forkVars, offerVars, stampVars, tripVars, initVars>>

SpecClient == Init /\ [][NextClient]_vars

\* C36: the close function of a subscription runs at most once; unsubscribe
\* of an id that is not in the table changes nothing; after disconnect the
\* table is empty and the client is not connected.
C36_CloseAtMostOnce ==
  /\ [](\A id \in SubIds : closeCalls[id] <= 1)
  /\ [](clientOp.op = "disconnect" => (subscriptions = {} /\ ~connected))
  /\ [][(clientOp'.op = "unsubscribe" /\ clientOp'.id \notin subscriptions)
          => (subscriptions' = subscriptions /\ closeCalls' = closeCalls /\ connected' = connected)]_vars

\* a subscription was closed by unsubscribe, unsubscribed once more, and the
\* client was disconnected while another subscription was open
C36_Witness ==
  /\ clientOp.op = "disconnect"
  /\ \A n \in 1..MaxSubs : closeCalls[SubId(n)] = 1

\* C37: isConnected is true exactly when some relay is connected: it is the
\* disjunction of the connected flags of relayStatus, and a relay that
\* getRelayStatus reports connected was reached.
C37_ConnectedIffRelayReached ==
  /\ isConnected = (\E r \in DOMAIN relayStatus : relayStatus[r])
  /\ isConnected = (reached # {})
  /\ \A r \in clientRelays : getRelayStatus(connected)[r] => r \in reached

\* the part of C37 that is about the store alone
C37_FlagIsDisjunction == isConnected = (\E r \in DOMAIN relayStatus : relayStatus[r])

\* the part of C37 that is about getRelayStatus alone
C37_StatusOnlyReached == \A r \in clientRelays : getRelayStatus(connected)[r] => r \in reached
====
